---- MODULE Spec2Model ----
(***************************************************************************)
(* Model of the session and knowledge orchestration engine of yaya.py:     *)
(* TutoringEngine (live session table, profile table, durable profile      *)
(* store) and the worker threads ModernTutoringApp.send_message starts     *)
(* for get_tutoring_response.                                              *)
(*                                                                         *)
(* A Python str is a sequence of atoms: an atom is one character of the    *)
(* inputs the model draws, or a whole literal of the source.  Optional[T]  *)
(* is a sequence of length 0 (None) or 1.  A dict is a record.             *)
(***************************************************************************)
EXTENDS Integers, Sequences, FiniteSets, Bags, TLC

\* ----------------------------------------------------------------- bound
\* The number of calls of a run (operations of the engine, clock ticks).
MaxCalls == 3

\* The number of ask calls of a run that starts on a session with a log.
MaxAsks == 2

\* ------------------------------------------------------ program constant
MaxFollowups == 3

\* ------------------------------------------------------------------ inputs
None == <<>>
Some(x) == <<x>>

\* <<user_id, subject>>: a registered learner and an unregistered one; the
\* two pairs concatenate to the same string.
StartInputs == {<< <<"u">>, <<"a", "b">> >>, << <<"u", "a">>, <<"b">> >>}
Queries == {<<"q1">>, <<"q2">>}
Difficulties == {<<"medium">>}
Concepts == {<<"c">>}

\* now            the clock, in ticks
\* heap           the TutoringSession objects created so far, by reference
\* sessions       TutoringEngine.sessions: session_id -> reference
\* user_profiles  TutoringEngine.user_profiles: user_id -> profile
\* users_db       the users table of user_data.db: user_id -> row
\* threads        the calls in progress: the worker threads of send_message
\*                and the calls that wait for the generator
\* ret            what the last completed call gave its caller
\* calls          the number of calls made
\* current_user     ModernTutoringApp.current_user, a reference to a profile
\* current_session  ModernTutoringApp.current_session, a reference
\* has_user_input   hasattr(app, 'user_input'): show_session_interface ran
\* sending          the send_message calls that are inside self.root.update()
\*                  (line 1523), in the order they were made: who called
\*                  (0: the thread of the event loop, i: voice loop i) and
\*                  the message read from the entry
\* voice_enabled    ModernTutoringApp.voice_enabled
\* stop_voice_event ModernTutoringApp.stop_voice_event: is it set
\* voice_loops      the voice_input_loop threads started so far: where each is
\* kb_subjects      the rows of table subjects of knowledge_base.db
\* kb_resources     the rows of table resources of knowledge_base.db
VARIABLES now, heap, sessions, user_profiles, users_db, threads, ret, calls,
          current_user, current_session, has_user_input, sending,
          voice_enabled, stop_voice_event, voice_loops,
          kb_subjects, kb_resources

app_vars == <<current_user, current_session, has_user_input, sending>>

voice_vars == <<voice_enabled, stop_voice_event, voice_loops>>

kb_vars == <<kb_subjects, kb_resources>>

\* The state outside the TutoringEngine and its worker threads.
non_engine_vars == <<app_vars, voice_vars, kb_vars>>

vars == <<now, heap, sessions, user_profiles, users_db, threads, ret, calls,
          non_engine_vars>>

Call == calls < MaxCalls /\ calls' = calls + 1

\* ------------------------------------------------------------ pure helpers
IsoFormat(t) == <<ToString(t)>>

Sha256(s) == <<"sha256:">> \o s

\* The characters str.strip() removes, the 29 of str.isspace(): tab, line
\* feed, vertical tab, form feed, carriage return, the four separators
\* U+001C..U+001F, space, U+0085 and U+00A0 as themselves, and the 17 above
\* U+00A0, which a string of this module cannot hold, as the atom that
\* names the code point.
Whitespace ==
    {" ", "\n", "\t", "\r", "\f", "", "", "", "", "", "", " ",
     "U+1680", "U+2000", "U+2001", "U+2002", "U+2003", "U+2004",
     "U+2005", "U+2006", "U+2007", "U+2008", "U+2009", "U+200A",
     "U+2028", "U+2029", "U+202F", "U+205F", "U+3000"}

IsSpace(c) == c \in Whitespace

RECURSIVE LStrip(_)
LStrip(s) == IF s # <<>> /\ IsSpace(Head(s)) THEN LStrip(Tail(s)) ELSE s

RECURSIVE RStrip(_)
RStrip(s) ==
    IF s # <<>> /\ IsSpace(s[Len(s)]) THEN RStrip(SubSeq(s, 1, Len(s) - 1)) ELSE s

Strip(s) == RStrip(LStrip(s))

RECURSIVE SplitFrom(_, _, _)
SplitFrom(s, i, cur) ==
    IF i > Len(s) THEN <<cur>>
    ELSE IF s[i] = "\n" THEN <<cur>> \o SplitFrom(s, i + 1, <<>>)
    ELSE SplitFrom(s, i + 1, Append(cur, s[i]))

SplitLines(s) == SplitFrom(s, 1, <<>>)

RECURSIVE StrippedNonEmpty(_)
StrippedNonEmpty(lines) ==
    IF lines = <<>> THEN <<>>
    ELSE IF Strip(Head(lines)) # <<>>
         THEN <<Strip(Head(lines))>> \o StrippedNonEmpty(Tail(lines))
         ELSE StrippedNonEmpty(Tail(lines))

Take(s, n) == SubSeq(s, 1, IF Len(s) < n THEN Len(s) ELSE n)

\* ---------------------------------------------------- content generator
\* One call to openai.ChatCompletion.create: it raises (content is str(e))
\* or returns a reply text.
GenFail(e) == [ok |-> FALSE, content |-> e]
GenReply(t) == [ok |-> TRUE, content |-> t]

GenErrors == {GenFail(e) : e \in {<<>>, <<"timeout">>}}

\* A JSON document is the tagged object it decodes to; any other text is
\* not JSON and json.loads raises on it.
JsonDumps(v) == <<"json", v>>
IsJson(t) == Len(t) = 2 /\ t[1] = "json"
JsonLoads(t) == t[2]

\* A decoded JSON value that is not an object (a list, a number, a string):
\* subscripting it with a field name raises TypeError.
NotDict(v) == [not_dict |-> v]
IsDict(v) == "not_dict" \notin DOMAIN v

ObjectiveTexts == {<<" ", "o", "1", "\n", "\n", "o", "2">>}
ObjectiveOutcomes == GenErrors \cup {GenReply(t) : t \in ObjectiveTexts}

\* ---------------------------------------------------------------- engine
FallbackObjectives(subject) ==
    << <<"Understand core concepts of ">> \o subject,
       <<"Apply ">> \o subject \o <<" knowledge to solve problems">>,
       <<"Develop critical thinking in ">> \o subject >>

_generate_learning_objectives(subject, out) ==
    IF out.ok THEN StrippedNonEmpty(SplitLines(out.content))
    ELSE FallbackObjectives(subject)

TutoringSession(session_id, user_id, subject, start_time, objectives) ==
    [session_id |-> session_id, user_id |-> user_id, subject |-> subject,
     start_time |-> start_time, end_time |-> None, messages |-> <<>>,
     learning_objectives |-> objectives, whiteboard_data |-> <<>>]

\* What the last completed call gave its caller: the exception it raised
\* ("none" when it returned), the returned answer and follow-ups (ask) and
\* the returned dict (quiz, whiteboard, summary).
Ret(op, sid, raised, answer, followups, result) ==
    [op |-> op, sid |-> sid, raised |-> raised, answer |-> answer,
     followups |-> followups, result |-> result]

NoRet == Ret("none", <<>>, "none", <<>>, None, None)

UnknownSessionAbsorbed(op, sid) ==
    Ret(op, sid, "none", <<"An error occurred: ", "Invalid session ID">>, None, None)

\* `if session_id not in self.sessions: raise ValueError("Invalid session ID")`
UnknownSession(op, sid) == Ret(op, sid, "ValueError", <<>>, None, None)

Put(f, k, v) == [x \in DOMAIN f \cup {k} |-> IF x = k THEN v ELSE f[x]]

\* A call inside start_session, waiting for the objectives (line 544): the
\* id of lines 535-537 and the constructor arguments evaluated so far
\* (lines 540-543).
Starting(caller, session_id, user_id, subject, start_time) ==
    [pc |-> caller, sid |-> session_id, query |-> <<>>, session |-> 0,
     ai_response |-> <<>>,
     request |-> [user_id |-> user_id, subject |-> subject,
                  start_time |-> start_time]]

\* start_session up to the request for the objectives: the clock is read at
\* line 536 (for the hash) and again at line 543 (for start_time); adv is
\* what it advanced by in between.  `caller` tells the thread of a direct
\* call ("start_session") from the one of launch_session.
TutoringEngine_start_session(user_id, subject, adv, caller) ==
    /\ Call
    /\ threads' = threads (+)
           SetToBag({Starting(caller,
                              Sha256(user_id \o subject \o IsoFormat(now)),
                              user_id, subject, IsoFormat(now + adv))})
    /\ now' = now + adv
    /\ UNCHANGED <<heap, sessions, user_profiles, users_db, ret>>

\* A start_session call made by any caller other than the application.
start_session(user_id, subject, adv) ==
    /\ TutoringEngine_start_session(user_id, subject, adv, "start_session")
    /\ UNCHANGED non_engine_vars

\* Lines 544-549: the objectives are there, the session object is made and
\* put into the table under its id, and returned.
TutoringEngine_start_session_return(th, out) ==
    /\ LET session == TutoringSession(th.sid, th.request.user_id,
                          th.request.subject, th.request.start_time,
                          _generate_learning_objectives(th.request.subject, out))
       IN /\ heap' = Append(heap, session)
          /\ sessions' = Put(sessions, th.sid, Len(heap) + 1)
          /\ ret' = Ret("start_session", th.sid, "none", <<>>, None, None)
    /\ threads' = threads (-) SetToBag({th})
    /\ UNCHANGED <<now, user_profiles, users_db, calls>>

start_session_return(th, out) ==
    /\ th.pc = "start_session"
    /\ TutoringEngine_start_session_return(th, out)
    /\ UNCHANGED non_engine_vars

Tick ==
    /\ Call
    /\ now' = now + 1
    /\ UNCHANGED <<heap, sessions, user_profiles, users_db, threads, ret>>
    /\ UNCHANGED non_engine_vars

\* ------------------------------------------------------ persistent store
UserProfile(user_id, name, learning_style, proficiency_level) ==
    [user_id |-> user_id, name |-> name, learning_style |-> learning_style,
     proficiency_level |-> proficiency_level, preferred_subjects |-> <<>>,
     session_history |-> <<>>, avatar_path |-> <<>>]

UserRow(profile) ==
    [name |-> profile.name, learning_style |-> profile.learning_style,
     proficiency_level |-> profile.proficiency_level,
     preferred_subjects |-> JsonDumps(profile.preferred_subjects),
     session_history |-> JsonDumps(profile.session_history),
     avatar_path |-> profile.avatar_path]

\* Reading the columns of a row in a wrong order.
RowProfileSwapped(user_id, row) ==
    [user_id |-> user_id, name |-> row.name,
     learning_style |-> row.proficiency_level,
     proficiency_level |-> row.learning_style,
     preferred_subjects |-> JsonLoads(row.preferred_subjects),
     session_history |-> JsonLoads(row.session_history),
     avatar_path |-> row.avatar_path]

RowProfile(user_id, row) ==
    [user_id |-> user_id, name |-> row.name,
     learning_style |-> row.learning_style,
     proficiency_level |-> row.proficiency_level,
     preferred_subjects |-> JsonLoads(row.preferred_subjects),
     session_history |-> JsonLoads(row.session_history),
     avatar_path |-> row.avatar_path]

\* json.loads succeeds on both JSON columns of the row.
Decodes(row) == IsJson(row.preferred_subjects) /\ IsJson(row.session_history)

\* The orders in which SELECT * (line 489) can return the rows of a store,
\* each row as <<user_id, columns>>: the statement has no ORDER BY and the
\* store keeps no row order.
RowOrders(db) ==
    LET n == Cardinality(DOMAIN db)
    IN {[i \in 1..n |-> <<f[i], db[f[i]]>>] :
           f \in {g \in [1..n -> DOMAIN db] :
                      \A i, j \in 1..n : g[i] = g[j] => i = j}}

\* load_user_data into the profile table `profiles`, lines 490-501: one
\* profile per row, in the order of `rows`; json.loads raises on the first
\* row that does not decode, and the profiles loaded before it stay.
RECURSIVE load_user_data(_, _)
load_user_data(profiles, rows) ==
    IF rows = <<>> \/ ~Decodes(Head(rows)[2]) THEN profiles
    ELSE load_user_data(
             [u \in DOMAIN profiles \cup {Head(rows)[1]} |->
                 IF u = Head(rows)[1] THEN RowProfile(u, Head(rows)[2])
                 ELSE profiles[u]],
             Tail(rows))

\* save_user_data: INSERT OR REPLACE of every profile in one transaction;
\* when the write fails the exception is logged and the store is as before.
save_user_data(profiles, db, write_ok) ==
    IF write_ok
    THEN [u \in DOMAIN db \cup DOMAIN profiles |->
             IF u \in DOMAIN profiles THEN UserRow(profiles[u]) ELSE db[u]]
    ELSE db

\* What save_user_data gives its caller: it has no return statement and its
\* `except` logs the error, so it returns None whether or not the write
\* succeeded.
SaveOutcome(write_ok) == Ret("save_user_data", <<>>, "none", <<>>, None, None)

\* The store found at start-up: one registered learner.
InitialStore ==
    [u \in {<<"u">>} |->
        UserRow(UserProfile(u, <<"Una">>, <<"visual">>, <<"beginner">>))]

\* ------------------------------------------------------------------- ask
AnswerOutcomes == GenErrors \cup {GenReply(<<"a1">>)}

FollowupTexts == {<<"f1", "\n", " ", "\n", "f2", " ", "\n", "f3", "\n", "f4">>}
FollowupOutcomes == GenErrors \cup {GenReply(t) : t \in FollowupTexts}

\* get_subject_resources, called by get_tutoring_response, either raises a
\* storage error or succeeds; when it succeeds the rows are those of the
\* catalog tables.
KbOutcomes == GenErrors \cup {GenReply(<<>>)}

SessionArgs == DOMAIN sessions \cup {Sha256(<<"x">>)}

\* A call in progress: where it is, its arguments, its locals `session` (a
\* reference, lines 577, 655, 754; 0 before it is read) and ai_response,
\* and the request it has sent to the generator.  `threads` is the bag of
\* them.
Thread(pc, sid, query, session, ai_response, request) ==
    [pc |-> pc, sid |-> sid, query |-> query, session |-> session,
     ai_response |-> ai_response, request |-> request]

\* A call that has built no tutoring request.
NoRequest ==
    [subject |-> <<>>, learning_objectives |-> <<>>, resources_context |-> <<>>,
     learning_style |-> <<>>, messages |-> <<>>]

Running == BagToSet(threads)

Move(th, to) == (threads (-) SetToBag({th})) (+) SetToBag({to})

Message(role, content) == [role |-> role, content |-> content]

\* The rows of resources JOIN subjects ON subject_id WHERE subject_name = ?,
\* as the dicts get_subject_resources builds.
RECURSIVE SubjectResources(_, _, _)
SubjectResources(subjects, resources, subject) ==
    IF resources = <<>> THEN <<>>
    ELSE LET row == Head(resources)
             matches == SelectSeq(subjects,
                            LAMBDA sr : /\ sr.subject_id = row.subject_id
                                        /\ sr.subject_name = subject)
         IN [i \in 1..Len(matches) |->
                [title |-> row.title, type |-> row.content_type,
                 content |-> row.content, difficulty |-> row.difficulty_level]]
            \o SubjectResources(subjects, Tail(resources), subject)

\* The slices of lines 584, 585 and 612.
ExcerptLen == 200
MaxResources == 3
ContextWindow == 5

\* s[:n]
FirstN(s, n) == SubSeq(s, 1, IF Len(s) > n THEN n ELSE Len(s))

\* s[-n:]
LastN(s, n) == SubSeq(s, IF Len(s) > n THEN Len(s) - n + 1 ELSE 1, Len(s))

\* f"Resource: {res['title']}\nContent: {res['content'][:200]}..."
Excerpt(res) ==
    <<"Resource: ">> \o res.title \o <<"\n", "Content: ">>
        \o Take(res.content, ExcerptLen) \o <<"...">>

\* The request of lines 593-616: the parts the system message is built from
\* (the excerpts are the items that line 583 joins), and the messages that
\* follow the system message.
TutoringRequest(session, user_query, resources, profiles) ==
    [subject |-> session.subject,
     learning_objectives |-> session.learning_objectives,
     resources_context |->
         [i \in 1..Len(Take(resources, MaxResources)) |-> Excerpt(resources[i])],
     learning_style |-> IF session.user_id \in DOMAIN profiles
                        THEN profiles[session.user_id].learning_style
                        ELSE <<"unknown">>,
     messages |-> LastN(session.messages, ContextWindow)
                      \o <<Message("user", user_query)>>]

\* An append to the wrong list of the session.
AppendObjective(objects, session, msg) ==
    [objects EXCEPT ![session].learning_objectives = Append(@, msg.content)]

AppendMessage(objects, session, msg) ==
    [objects EXCEPT ![session].messages = Append(@, msg)]

ErrorAnswerBare(e) == e

\* f"An error occurred: {str(e)}"
ErrorAnswer(e) == <<"An error occurred: ">> \o e

\* The `except` of get_tutoring_response (lines 629-631).
AskFailure(sid, e) == Ret("ask", sid, "none", ErrorAnswer(e), None, None)

\* Line 645 without its slice.
AllFollowupQuestions(out) ==
    IF out.ok THEN StrippedNonEmpty(SplitLines(out.content)) ELSE <<>>

_generate_followup_questions(out) ==
    IF out.ok THEN Take(StrippedNonEmpty(SplitLines(out.content)), MaxFollowups)
    ELSE <<>>

AskSuccessUncaught(th, out) ==
    IF out.ok
    THEN Ret("ask", th.sid, "none", th.ai_response,
             Some(Take(StrippedNonEmpty(SplitLines(out.content)), MaxFollowups)),
             None)
    ELSE Ret("ask", th.sid, "none", <<"An error occurred: ">> \o out.content,
             None, None)

\* Lines 625-627: `return ai_response, followups`.
AskSuccess(th, out) ==
    Ret("ask", th.sid, "none", th.ai_response,
        Some(_generate_followup_questions(out)), None)

RECURSIVE SumCopies(_)
SumCopies(S) ==
    IF S = {} THEN 0
    ELSE LET th == CHOOSE x \in S : TRUE
         IN CopiesIn(th, threads) + SumCopies(S \ {th})

\* The number of ask calls on a session that have started and not returned.
InFlight(session) ==
    SumCopies({th \in Running :
                  /\ th.session = session
                  /\ th.pc \in {"generating", "appended_user", "followups"}})

\* get_tutoring_response, lines 574-593: the session check, the catalog
\* lookup and the request to the generator.  `others` are the calls in
\* progress besides this one.
TutoringEngine_ask_begin(sid, query, kb, others) ==
    /\ IF sid \notin DOMAIN sessions
       THEN /\ ret' = UnknownSession("ask", sid)
            /\ threads' = others
       ELSE IF ~kb.ok
       THEN /\ ret' = AskFailure(sid, kb.content)
            /\ threads' = others
       ELSE /\ threads' = others (+)
                   SetToBag({Thread("generating", sid, query, sessions[sid], <<>>,
                       TutoringRequest(heap[sessions[sid]], query,
                           SubjectResources(kb_subjects, kb_resources,
                                            heap[sessions[sid]].subject),
                           user_profiles))})
            /\ UNCHANGED ret
    /\ UNCHANGED <<now, heap, sessions, user_profiles, users_db>>

\* A get_tutoring_response call made by any caller other than the
\* application.
ask_begin(sid, query, kb) ==
    /\ Call
    /\ TutoringEngine_ask_begin(sid, query, kb, threads)
    /\ UNCHANGED non_engine_vars

\* Lines 593-621: the generator call returns or raises; on a reply the
\* learner's query is appended (line 621).
ask_reply(th, out) ==
    /\ th.pc = "generating"
    /\ IF out.ok
       THEN /\ heap' = AppendMessage(heap, th.session, Message("user", th.query))
            /\ threads' = Move(th, Thread("appended_user", th.sid, th.query,
                                          th.session, out.content, th.request))
            /\ UNCHANGED ret
       ELSE /\ ret' = AskFailure(th.sid, out.content)
            /\ threads' = threads (-) SetToBag({th})
            /\ UNCHANGED heap
    /\ UNCHANGED <<now, sessions, user_profiles, users_db, calls>>
    /\ UNCHANGED non_engine_vars

\* Line 622: the tutor's answer is appended.
ask_append(th) ==
    /\ th.pc = "appended_user"
    /\ heap' = AppendMessage(heap, th.session,
                   Message("assistant", th.ai_response))
    /\ threads' = Move(th, Thread("followups", th.sid, th.query, th.session,
                                  th.ai_response, th.request))
    /\ UNCHANGED <<now, sessions, user_profiles, users_db, ret, calls>>
    /\ UNCHANGED non_engine_vars

\* Lines 625-627: the follow-up call, then the return.
ask_return(th, out) ==
    /\ th.pc = "followups"
    /\ ret' = AskSuccess(th, out)
    /\ threads' = threads (-) SetToBag({th})
    /\ UNCHANGED <<now, heap, sessions, user_profiles, users_db, calls>>
    /\ UNCHANGED non_engine_vars

\* ------------------------------------------------------- quiz, whiteboard
FullQuiz ==
    [question |-> <<"Q?">>,
     options |-> << <<"A">>, <<"B">>, <<"C">>, <<"D">> >>,
     correct_answer |-> 2, explanation |-> <<"because">>,
     visual_description |-> <<"a picture">>]

QuizTexts == {JsonDumps(FullQuiz), JsonDumps([question |-> <<"Q?">>]), <<"oops">>}
QuizOutcomes == GenErrors \cup {GenReply(t) : t \in QuizTexts}

FallbackQuizThreeOptions(subject) ==
    [question |-> <<"What is a key concept in ">> \o subject \o <<"?">>,
     options |-> << <<"Option 1">>, <<"Option 2">>, <<"Option 3">> >>,
     correct_answer |-> 0,
     explanation |-> <<"Basic concept explanation.">>,
     visual_description |-> <<"An illustration showing the basic concept">>]

FallbackQuiz(subject) ==
    [question |-> <<"What is a key concept in ">> \o subject \o <<"?">>,
     options |-> << <<"Option 1">>, <<"Option 2">>, <<"Option 3">>,
                    <<"Option 4">> >>,
     correct_answer |-> 0,
     explanation |-> <<"Basic concept explanation.">>,
     visual_description |-> <<"An illustration showing the basic concept">>]

QuizResult(session, out) ==
    IF out.ok /\ IsJson(out.content) THEN JsonLoads(out.content)
    ELSE FallbackQuiz(session.subject)

\* Lines 652-669: the session check, the session of the table, then the
\* request for a question of that difficulty.
generate_quiz(sid, difficulty) ==
    /\ Call
    /\ IF sid \notin DOMAIN sessions
       THEN /\ ret' = UnknownSession("generate_quiz", sid)
            /\ UNCHANGED threads
       ELSE /\ threads' = threads (+)
                   SetToBag({Thread("generate_quiz", sid, difficulty,
                                    sessions[sid], <<>>, NoRequest)})
            /\ UNCHANGED ret
    /\ UNCHANGED <<now, heap, sessions, user_profiles, users_db>>
    /\ UNCHANGED non_engine_vars

\* Lines 669-692: the reply is decoded and returned, or the fall-back is
\* made from the session line 655 took from the table.
generate_quiz_return(th, out) ==
    /\ th.pc = "generate_quiz"
    /\ ret' = Ret("generate_quiz", th.sid, "none", <<>>, None,
                  Some(QuizResult(heap[th.session], out)))
    /\ threads' = threads (-) SetToBag({th})
    /\ UNCHANGED <<now, heap, sessions, user_profiles, users_db, calls>>
    /\ UNCHANGED non_engine_vars

FullWhiteboard ==
    [title |-> <<"T">>, explanation |-> <<"E">>, visual_elements |-> <<>>,
     animation_sequence |-> <<>>, color_scheme |-> << <<"#000000">> >>,
     learning_activities |-> <<>>]

WhiteboardTexts ==
    {JsonDumps(FullWhiteboard), JsonDumps([title |-> <<"T">>]), <<"oops">>}
WhiteboardOutcomes == GenErrors \cup {GenReply(t) : t \in WhiteboardTexts}

FallbackWhiteboard(concept) ==
    [title |-> concept,
     explanation |-> <<"Explanation of ">> \o concept,
     visual_elements |-> <<>>,
     animation_sequence |-> <<>>,
     color_scheme |-> << <<"#3498db">>, <<"#e74c3c">>, <<"#2ecc71">> >>,
     learning_activities |-> <<>>]

WhiteboardResult(concept, out) ==
    IF out.ok /\ IsJson(out.content) THEN JsonLoads(out.content)
    ELSE FallbackWhiteboard(concept)

\* Lines 696-708: the prompt is made from the concept and the request is
\* sent; the call waits for the generator.
generate_whiteboard_content(concept) ==
    /\ Call
    /\ threads' = threads (+)
           SetToBag({Thread("generate_whiteboard_content", <<>>, concept, 0,
                            <<>>, NoRequest)})
    /\ UNCHANGED <<now, heap, sessions, user_profiles, users_db, ret>>
    /\ UNCHANGED non_engine_vars

\* A return of generate_whiteboard_content that records what it returns in
\* the whiteboard_data of every session.
generate_whiteboard_recorded(th, out) ==
    /\ th.pc = "generate_whiteboard_content"
    /\ ret' = Ret("generate_whiteboard_content", <<>>, "none", <<>>, None,
                  Some(WhiteboardResult(th.query, out)))
    /\ heap' = [i \in 1..Len(heap) |->
                   [heap[i] EXCEPT !.whiteboard_data =
                        Append(@, WhiteboardResult(th.query, out))]]
    /\ threads' = threads (-) SetToBag({th})
    /\ UNCHANGED <<now, sessions, user_profiles, users_db, calls>>
    /\ UNCHANGED non_engine_vars

\* Lines 708-729: the reply is decoded and returned, or the `except`
\* returns the fall-back made from the concept.
generate_whiteboard_content_return(th, out) ==
    /\ th.pc = "generate_whiteboard_content"
    /\ ret' = Ret("generate_whiteboard_content", <<>>, "none", <<>>, None,
                  Some(WhiteboardResult(th.query, out)))
    /\ threads' = threads (-) SetToBag({th})
    /\ UNCHANGED <<now, heap, sessions, user_profiles, users_db, calls>>
    /\ UNCHANGED non_engine_vars

\* ----------------------------------------------------------- end_session
FullSummary ==
    [topics_covered |-> << <<"t1">> >>, key_learnings |-> << <<"k1">> >>,
     suggested_next_steps |-> << <<"n1">> >>, performance_rating |-> 4,
     areas_for_improvement |-> <<>>, learning_style_insights |-> <<"i">>,
     recommended_resources |-> <<>>]

\* A decoded JSON number in the place of a list: a `for` over it raises
\* TypeError.  No list of the replies starts with the atom "number".
JsonNumber(n) == << <<"number", ToString(n)>> >>
IsIterable(v) == v = <<>> \/ v[1] = <<>> \/ v[1][1] # "number"

SummaryTexts ==
    {JsonDumps(FullSummary), JsonDumps([key_learnings |-> << <<"k1">> >>]),
     JsonDumps([FullSummary EXCEPT !.key_learnings = JsonNumber(4)]),
     <<"oops">>}
SummaryOutcomes == GenErrors \cup {GenReply(t) : t \in SummaryTexts}

FallbackSummary(subject) ==
    [topics_covered |-> << <<"Core concepts of ">> \o subject >>,
     key_learnings |-> << <<"Introduction to ">> \o subject,
                          <<"Basic principles and concepts">> >>,
     suggested_next_steps |-> << <<"Review basic ">> \o subject \o <<" concepts">>,
                                 <<"Practice with more examples">> >>,
     performance_rating |-> 3,
     areas_for_improvement |-> << <<"Advanced ">> \o subject \o <<" concepts">> >>,
     learning_style_insights |-> <<"Visual learning seemed effective">>,
     recommended_resources |-> <<>>]

_generate_session_summary(session, out) ==
    IF out.ok /\ IsJson(out.content) THEN JsonLoads(out.content)
    ELSE FallbackSummary(session.subject)

HistoryRecord(session, summary) ==
    [session_id |-> session.session_id, subject |-> session.subject,
     start_time |-> session.start_time, end_time |-> session.end_time[1],
     learning_objectives |-> session.learning_objectives,
     topics_covered |-> summary.topics_covered,
     performance_rating |-> summary.performance_rating]

\* Lines 751-758: the session check, the close timestamp, then the request
\* for the summary.  `caller` tells the thread of a direct call
\* ("summarising") from the one of end_current_session.
TutoringEngine_end_session(sid, caller) ==
    /\ Call
    /\ IF sid \notin DOMAIN sessions
       THEN /\ ret' = UnknownSession("end_session", sid)
            /\ UNCHANGED <<heap, threads>>
       ELSE /\ heap' = [heap EXCEPT ![sessions[sid]].end_time =
                                        Some(IsoFormat(now))]
            /\ threads' = threads (+)
                   SetToBag({Thread(caller, sid, <<>>, sessions[sid], <<>>,
                                    NoRequest)})
            /\ UNCHANGED ret
    /\ UNCHANGED <<now, sessions, user_profiles, users_db>>

\* An end_session call made by any caller other than the application.
end_session(sid) ==
    /\ TutoringEngine_end_session(sid, "summarising")
    /\ UNCHANGED non_engine_vars

\* Lines 761-770 once the summary is there, for the session object line 754
\* took from the table: <<profile table, raised>>.
EndSessionEffect(session, summary) ==
    IF session.user_id \notin DOMAIN user_profiles
    THEN <<user_profiles, "none">>
    ELSE IF ~IsDict(summary) THEN <<user_profiles, "TypeError">>
    ELSE IF {"topics_covered", "performance_rating"} \subseteq DOMAIN summary
    THEN <<[user_profiles EXCEPT ![session.user_id].session_history =
                Append(@, HistoryRecord(session, summary))],
           "none">>
    ELSE <<user_profiles, "KeyError">>

\* Lines 758-775: the summary request returns or fails, the record is
\* appended, the table is saved, the summary is returned.
TutoringEngine_end_session_return(th, out, write_ok) ==
    /\ LET session == heap[th.session]
           summary == _generate_session_summary(session, out)
           eff == EndSessionEffect(session, summary)
       IN /\ user_profiles' = eff[1]
          /\ users_db' = IF eff[2] = "none"
                         THEN save_user_data(eff[1], users_db, write_ok)
                         ELSE users_db
          /\ ret' = Ret("end_session", th.sid, eff[2], <<>>, None,
                        IF eff[2] = "none" THEN Some(summary) ELSE None)
    /\ threads' = threads (-) SetToBag({th})
    /\ UNCHANGED <<now, heap, sessions, calls>>

end_session_return(th, out, write_ok) ==
    /\ th.pc = "summarising"
    /\ TutoringEngine_end_session_return(th, out, write_ok)
    /\ UNCHANGED non_engine_vars

\* ------------------------------------------------------------ application
\* The handlers of ModernTutoringApp that reach the engine's profile table,
\* the store and the session table.
Names == {<<"Una">>, <<"u58659">>, <<"u67268">>, <<>>}
LearningStyles == {<<"visual">>}
ProficiencyLevels == {<<"beginner">>}
Subjects == {<<"Math">>, <<>>}
AvatarPaths == {<<"a.png">>, <<>>}
GuestNumbers == {1000}

\* hashlib.sha256(name.encode()).hexdigest()[:8]: the 8 hex digits of the
\* names the model draws (two of them share theirs); any other name has an
\* id of its own.
RegisteredId(name) ==
    IF name = <<"Una">> THEN <<"658116fe">>
    ELSE IF name \in {<<"u58659">>, <<"u67268">>} THEN <<"375b17c1">>
    ELSE <<"sha256[:8]:">> \o name

\* "guest_" + str(random.randint(1000, 9999))
GuestId(n) == <<"guest_", ToString(n)>>

IsGuestId(user_id) == user_id # <<>> /\ user_id[1] = "guest_"

LoginIds == {RegisteredId(<<"Una">>), <<"nobody">>}

\* current_user refers to the profile object the engine's table holds under
\* user_id (own = None), or to an object of its own that the table does not
\* hold (own = Some(profile)).
UserRef(user_id, own) == [user_id |-> user_id, own |-> own]

CurrentProfile ==
    IF current_user[1].own = None
    THEN user_profiles[current_user[1].user_id]
    ELSE current_user[1].own[1]

\* What a handler showed: answer is the text of its message box.
Shown(op, text) == Ret(op, <<>>, "none", text, None, None)

\* The thread of the event loop is inside a handler: launch_session waits
\* in engine.start_session, end_current_session waits in engine.end_session,
\* or the message box of toggle_voice_input (line 1562) is open.  No other
\* handler runs until it returns.
MainBusy ==
    \/ \E th \in Running : th.pc \in {"launch_session", "end_current_session"}
    \/ \E i \in 1..Len(voice_loops) : voice_loops[i] = "dialog"

guest_login(n) ==
    /\ ~MainBusy
    /\ Call
    /\ current_user' =
           Some(UserRef(GuestId(n),
                        Some(UserProfile(GuestId(n), <<"Guest User">>,
                                         <<"unknown">>, <<"unknown">>))))
    /\ ret' = Shown("guest_login", <<>>)
    /\ UNCHANGED <<now, heap, sessions, user_profiles, users_db, threads,
                   current_session, has_user_input, sending, voice_vars,
                   kb_vars>>

do_login(user_id) ==
    /\ ~MainBusy
    /\ Call
    /\ IF user_id \in DOMAIN user_profiles
       THEN /\ current_user' = Some(UserRef(user_id, None))
            /\ ret' = Shown("do_login", <<>>)
       ELSE /\ ret' = Shown("do_login", <<"User not found. Please register.">>)
            /\ UNCHANGED current_user
    /\ UNCHANGED <<now, heap, sessions, user_profiles, users_db, threads,
                   current_session, has_user_input, sending, voice_vars,
                   kb_vars>>

do_register(name, learning_style, proficiency_level, write_ok) ==
    /\ ~MainBusy
    /\ Call
    /\ IF name = <<>>
       THEN /\ ret' = Shown("do_register", <<"Please enter your name">>)
            /\ UNCHANGED <<user_profiles, users_db, current_user>>
       ELSE LET user_id == RegisteredId(name)
            IN /\ user_profiles' =
                      Put(user_profiles, user_id,
                          UserProfile(user_id, name, learning_style,
                                      proficiency_level))
               /\ users_db' = save_user_data(user_profiles', users_db, write_ok)
               /\ current_user' = Some(UserRef(user_id, None))
               /\ ret' = Shown("do_register",
                               <<"Account created! Your user ID is: ">> \o user_id)
    /\ UNCHANGED <<now, heap, sessions, threads, current_session,
                   has_user_input, sending>>
    /\ UNCHANGED <<voice_vars, kb_vars>>

\* Lines 1358-1363: no subject selected, or nobody logged in
\* (`self.current_user.user_id` raises AttributeError before
\* engine.start_session is called), or the call of engine.start_session, in
\* which the handler waits for the objectives.
launch_session(subject, adv) ==
    /\ ~MainBusy
    /\ IF subject = <<>>
       THEN /\ Call
            /\ ret' = Shown("launch_session", <<"Please select a subject">>)
            /\ UNCHANGED <<now, heap, sessions, user_profiles, users_db,
                           threads>>
       ELSE IF current_user = None
       THEN /\ Call
            /\ ret' = Ret("launch_session", <<>>, "AttributeError", <<>>, None,
                          None)
            /\ UNCHANGED <<now, heap, sessions, user_profiles, users_db,
                           threads>>
       ELSE TutoringEngine_start_session(current_user[1].user_id, subject, adv,
                                         "launch_session")
    /\ UNCHANGED <<app_vars, voice_vars, kb_vars>>

\* Lines 1363-1364: engine.start_session returns the session, which becomes
\* the current one, and show_session_interface builds the session screen
\* with its entry (line 1413).
launch_session_return(th, out) ==
    /\ th.pc = "launch_session"
    /\ TutoringEngine_start_session_return(th, out)
    /\ current_session' = Some(Len(heap) + 1)
    /\ has_user_input' = TRUE
    /\ UNCHANGED <<current_user, sending, voice_vars, kb_vars>>

\* Lines 1744-1796, the display of the summary: what it raises.  The three
\* lists are read and iterated in turn (lines 1758, 1768, 1778), then the
\* rating is read (line 1786).  A summary that is no dict cannot be
\* subscripted with a field name, a field it lacks is a KeyError, a field
\* that is no iterable is a TypeError.
ShowSummary(summary) ==
    IF ~IsDict(summary) THEN "TypeError"
    ELSE LET Listed(field) == /\ field \in DOMAIN summary
                              /\ IsIterable(summary[field])
             Failure(field) == IF field \notin DOMAIN summary THEN "KeyError"
                               ELSE "TypeError"
         IN IF ~Listed("topics_covered") THEN Failure("topics_covered")
            ELSE IF ~Listed("key_learnings") THEN Failure("key_learnings")
            ELSE IF ~Listed("suggested_next_steps")
            THEN Failure("suggested_next_steps")
            ELSE IF "performance_rating" \notin DOMAIN summary THEN "KeyError"
            ELSE "none"

\* Lines 1739-1742: nothing to end, or the call of engine.end_session, in
\* which the handler waits for the summary.
end_current_session ==
    /\ ~MainBusy
    /\ IF current_session = None
       THEN /\ Call
            /\ UNCHANGED <<now, heap, sessions, user_profiles, users_db,
                           threads, ret>>
       ELSE TutoringEngine_end_session(heap[current_session[1]].session_id,
                                       "end_current_session")
    /\ UNCHANGED <<app_vars, voice_vars, kb_vars>>

\* Lines 1742-1798: engine.end_session returns and the summary is shown.
\* When it raises, or the display raises (on a summary that is no dict,
\* lacks a field or holds no iterable where a list is shown), line 1798 is
\* not reached and current_session stays.
end_current_session_return(th, out, write_ok) ==
    /\ th.pc = "end_current_session"
    /\ TutoringEngine_end_session_return(th, out, write_ok)
    /\ current_session' =
           IF ret'.raised = "none" /\ ShowSummary(ret'.result[1]) = "none"
           THEN None
           ELSE current_session
    /\ UNCHANGED <<current_user, has_user_input, sending, voice_vars,
                   kb_vars>>

change_avatar(file_path, write_ok) ==
    /\ ~MainBusy
    /\ current_user # None
    /\ Call
    /\ IF file_path = <<>>
       THEN UNCHANGED <<user_profiles, users_db, current_user, ret>>
       ELSE LET user_id == current_user[1].user_id
            IN /\ user_profiles' =
                      Put(user_profiles, user_id,
                          [CurrentProfile EXCEPT !.avatar_path = file_path])
               /\ users_db' = save_user_data(user_profiles', users_db, write_ok)
               /\ current_user' = Some(UserRef(user_id, None))
               /\ ret' = Shown("change_avatar", <<>>)
    /\ UNCHANGED <<now, heap, sessions, threads, current_session,
                   has_user_input, sending>>
    /\ UNCHANGED <<voice_vars, kb_vars>>

save_settings(voice_var, write_ok) ==
    /\ ~MainBusy
    /\ current_user # None
    /\ Call
    /\ voice_enabled' = voice_var
    /\ LET user_id == current_user[1].user_id
       IN /\ user_profiles' = Put(user_profiles, user_id, CurrentProfile)
          /\ users_db' = save_user_data(user_profiles', users_db, write_ok)
          /\ current_user' = Some(UserRef(user_id, None))
          /\ ret' = Shown("save_settings", <<"Settings saved successfully">>)
    /\ UNCHANGED <<now, heap, sessions, threads, current_session,
                   has_user_input, sending>>
    /\ UNCHANGED <<stop_voice_event, voice_loops, kb_vars>>

Placeholder == <<"Type your question here...">>

\* send_message up to line 1523, called by `by`: `self.user_input` raises
\* AttributeError when no session screen was ever built (line 1511); it
\* returns on an empty entry or the placeholder (line 1512); else it
\* clears the entry and enters self.root.update(), where the handlers of
\* the pending events run.
ModernTutoringApp_send_message(message, by) ==
    /\ Call
    /\ IF ~has_user_input
       THEN /\ ret' = Ret("send_message", <<>>, "AttributeError", <<>>, None,
                          None)
            /\ UNCHANGED sending
       ELSE IF message \in {<<>>, Placeholder}
       THEN UNCHANGED <<sending, ret>>
       ELSE /\ sending' = Append(sending, [by |-> by, message |-> message])
            /\ UNCHANGED ret
    /\ UNCHANGED <<now, heap, sessions, user_profiles, users_db, threads>>

\* The Send button.
send_message(message) ==
    /\ ~MainBusy
    /\ ModernTutoringApp_send_message(message, 0)
    /\ UNCHANGED <<current_user, current_session, has_user_input, voice_vars,
                   kb_vars>>

\* Lines 1523-1526, for the k-th call inside update(): update() returns
\* and the worker thread of get_ai_response is started with the message.
\* On the thread of the event loop update() returns when the handlers that
\* ran inside it have returned, a send_message among them included; a
\* voice loop is then at its test again.
send_message_return(k) ==
    /\ k \in 1..Len(sending)
    /\ IF sending[k].by = 0
       THEN /\ ~MainBusy
            /\ \A j \in (k + 1)..Len(sending) : sending[j].by # 0
            /\ UNCHANGED voice_loops
       ELSE voice_loops' = [voice_loops EXCEPT ![sending[k].by] = "check"]
    /\ threads' = threads (+)
           SetToBag({Thread("get_ai_response", <<>>, sending[k].message, 0,
                            <<>>, NoRequest)})
    /\ sending' = SubSeq(sending, 1, k - 1) \o SubSeq(sending, k + 1, Len(sending))
    /\ UNCHANGED <<now, heap, sessions, user_profiles, users_db, ret, calls>>
    /\ UNCHANGED <<current_user, current_session, has_user_input,
                   voice_enabled, stop_voice_event, kb_vars>>

\* The worker thread, lines 1530-1533 and 1549-1551: it reads
\* self.current_session and calls engine.get_tutoring_response; what is
\* raised before the call is in progress (no current session, an id the
\* table does not list) is shown by its `except`.
get_ai_response(th, kb) ==
    /\ th.pc = "get_ai_response"
    /\ IF current_session = None
       THEN /\ ret' = Shown("get_ai_response",
                   ErrorAnswer(<<"'NoneType' object has no attribute 'session_id'">>))
            /\ threads' = threads (-) SetToBag({th})
            /\ UNCHANGED <<now, heap, sessions, user_profiles, users_db>>
       ELSE IF heap[current_session[1]].session_id \notin DOMAIN sessions
       THEN /\ ret' = Shown("get_ai_response",
                            ErrorAnswer(<<"Invalid session ID">>))
            /\ threads' = threads (-) SetToBag({th})
            /\ UNCHANGED <<now, heap, sessions, user_profiles, users_db>>
       ELSE TutoringEngine_ask_begin(heap[current_session[1]].session_id,
                                     th.query, kb, threads (-) SetToBag({th}))
    /\ UNCHANGED calls
    /\ UNCHANGED non_engine_vars

\* A store an earlier run of the application left: one learner registered
\* by do_register, one session recorded by end_session.
EarlierRunStore ==
    LET user_id == RegisteredId(<<"Una">>)
        profile == UserProfile(user_id, <<"Una">>, <<"visual">>, <<"beginner">>)
        session == [TutoringSession(Sha256(user_id \o <<"Math">> \o <<"earlier">>),
                                    user_id, <<"Math">>, <<"earlier">>,
                                    FallbackObjectives(<<"Math">>))
                        EXCEPT !.end_time = Some(<<"earlier">>)]
        record == HistoryRecord(session, FallbackSummary(<<"Math">>))
    IN [u \in {user_id} |->
           UserRow([profile EXCEPT !.session_history = <<record>>])]

\* ModernTutoringApp.__init__: nobody is logged in, no session is shown.
AppInit ==
    /\ current_user = None
    /\ current_session = None
    /\ has_user_input = FALSE
    /\ sending = <<>>
    /\ voice_enabled = FALSE
    /\ stop_voice_event = FALSE
    /\ voice_loops = <<>>

\* LocalKnowledgeBase.__init__ on a new knowledge_base.db: both tables are
\* created empty.
KbInit ==
    /\ kb_subjects = <<>>
    /\ kb_resources = <<>>

Init ==
    /\ now = 0
    /\ heap = <<>>
    /\ sessions = <<>>
    /\ users_db = InitialStore
    /\ \E rows \in RowOrders(users_db) :
          user_profiles = load_user_data(<<>>, rows)
    /\ threads = EmptyBag
    /\ ret = NoRet
    /\ calls = 0
    /\ AppInit
    /\ KbInit

Next ==
    \/ Tick
    \/ \E in \in StartInputs, adv \in 0..1 : start_session(in[1], in[2], adv)
    \/ \E th \in Running, out \in ObjectiveOutcomes : start_session_return(th, out)
    \/ \E sid \in SessionArgs, q \in Queries, kb \in KbOutcomes :
          ask_begin(sid, q, kb)
    \/ \E th \in Running, out \in AnswerOutcomes : ask_reply(th, out)
    \/ \E th \in Running : ask_append(th)
    \/ \E th \in Running, out \in FollowupOutcomes : ask_return(th, out)
    \/ \E sid \in SessionArgs, d \in Difficulties : generate_quiz(sid, d)
    \/ \E th \in Running, out \in QuizOutcomes : generate_quiz_return(th, out)
    \/ \E c \in Concepts : generate_whiteboard_content(c)
    \/ \E th \in Running, out \in WhiteboardOutcomes :
          generate_whiteboard_content_return(th, out)
    \/ \E sid \in SessionArgs : end_session(sid)
    \/ \E th \in Running, out \in SummaryOutcomes, write_ok \in BOOLEAN :
          end_session_return(th, out, write_ok)

Spec == Init /\ [][Next]_vars

\* The application on top of the engine, started on a store an earlier run
\* left.
InitApp ==
    /\ now = 0
    /\ heap = <<>>
    /\ sessions = <<>>
    /\ users_db = EarlierRunStore
    /\ \E rows \in RowOrders(users_db) :
          user_profiles = load_user_data(<<>>, rows)
    /\ threads = EmptyBag
    /\ ret = NoRet
    /\ calls = 0
    /\ AppInit
    /\ KbInit

NextApp ==
    \/ \E n \in GuestNumbers : guest_login(n)
    \/ \E user_id \in LoginIds : do_login(user_id)
    \/ \E name \in Names, ls \in LearningStyles, pl \in ProficiencyLevels,
          write_ok \in BOOLEAN : do_register(name, ls, pl, write_ok)
    \/ \E subject \in Subjects, adv \in 0..1 : launch_session(subject, adv)
    \/ \E th \in Running, out \in ObjectiveOutcomes :
          launch_session_return(th, out)
    \/ end_current_session
    \/ \E th \in Running, out \in SummaryOutcomes, write_ok \in BOOLEAN :
          end_current_session_return(th, out, write_ok)
    \/ \E file_path \in AvatarPaths, write_ok \in BOOLEAN :
          change_avatar(file_path, write_ok)
    \/ \E voice_var \in BOOLEAN, write_ok \in BOOLEAN :
          save_settings(voice_var, write_ok)
    \/ \E q \in Queries \cup {<<>>, Placeholder} : send_message(q)
    \/ \E k \in 1..Len(sending) : send_message_return(k)
    \/ \E th \in Running, kb \in KbOutcomes : get_ai_response(th, kb)
    \/ \E th \in Running, out \in AnswerOutcomes : ask_reply(th, out)
    \/ \E th \in Running : ask_append(th)
    \/ \E th \in Running, out \in FollowupOutcomes : ask_return(th, out)

SpecApp == InitApp /\ [][NextApp]_vars

\* ------------------------------------------------------- the profile store
\* save_user_data and load_user_data on profile tables a caller of the
\* engine filled.  A profile a caller put into the table, per user_id: none,
\* or one of these.
StoredIds == {<<"p1">>, <<"p2">>}

SomeRecord ==
    [session_id |-> Sha256(<<"p1", "Math", "0">>), subject |-> <<"Math">>,
     start_time |-> <<"0">>, end_time |-> <<"1">>,
     learning_objectives |-> << <<"o1">> >>,
     topics_covered |-> << <<"t1">> >>, performance_rating |-> 4]

ProfilesOf(user_id) ==
    {[UserProfile(user_id, <<"N">>, <<"visual">>, <<"beginner">>)
         EXCEPT !.preferred_subjects = ps, !.session_history = h,
                !.avatar_path = av] :
        ps \in {<<>>, << <<"Math">>, <<"Art">> >>},
        h \in {<<>>, <<SomeRecord>>},
        av \in {<<>>, <<"a.png">>}}

\* The tables over StoredIds: each id absent (None) or present.
ProfileTables ==
    {[u \in {v \in StoredIds : choice[v] # None} |-> choice[u][1]] :
        choice \in [StoredIds -> {None} \cup
                       {Some(p) : p \in UNION {ProfilesOf(v) : v \in StoredIds}}]}

WellKeyed(table) == \A u \in DOMAIN table : table[u].user_id = u

\* load_user_data with its `except`: when the read fails before the first
\* row (connect, CREATE TABLE, SELECT, fetchall) the table is left as it
\* was.
load_user_data_or_fail(profiles, rows, read_ok) ==
    IF read_ok THEN load_user_data(profiles, rows) ELSE profiles

\* An engine constructed on a new store or on the store of an earlier run
\* (the load of __init__ succeeded or failed), whose caller then filled the
\* profile table.
InitStore ==
    /\ now = 0
    /\ heap = <<>>
    /\ sessions = <<>>
    /\ users_db \in {<<>>, EarlierRunStore}
    /\ \E rows \in RowOrders(users_db), read_ok \in BOOLEAN,
          table \in {t \in ProfileTables : WellKeyed(t)} :
          user_profiles =
              LET loaded == load_user_data_or_fail(<<>>, rows, read_ok)
              IN [u \in DOMAIN loaded \cup DOMAIN table |->
                     IF u \in DOMAIN table THEN table[u] ELSE loaded[u]]
    /\ threads = EmptyBag
    /\ ret = NoRet
    /\ calls = 0
    /\ AppInit
    /\ KbInit

\* A call of save_user_data.
engine_save(write_ok) ==
    /\ Call
    /\ users_db' = save_user_data(user_profiles, users_db, write_ok)
    /\ ret' = SaveOutcome(write_ok)
    /\ UNCHANGED <<now, heap, sessions, user_profiles, threads>>
    /\ UNCHANGED non_engine_vars

\* The process is started again on the same files: a new engine with an
\* empty session table, whose __init__ loads the store into its empty
\* profile table, and a new application.
engine_restart(rows, read_ok) ==
    /\ Call
    /\ rows \in RowOrders(users_db)
    /\ heap' = <<>>
    /\ sessions' = <<>>
    /\ threads' = EmptyBag
    /\ user_profiles' = load_user_data_or_fail(<<>>, rows, read_ok)
    /\ ret' = Ret("load_user_data", <<>>, "none", <<>>, None, None)
    /\ current_user' = None
    /\ current_session' = None
    /\ has_user_input' = FALSE
    /\ sending' = <<>>
    /\ voice_enabled' = FALSE
    /\ stop_voice_event' = FALSE
    /\ voice_loops' = <<>>
    /\ UNCHANGED <<now, users_db, kb_vars>>

NextStore ==
    \/ \E write_ok \in BOOLEAN : engine_save(write_ok)
    \/ \E rows \in RowOrders(users_db), read_ok \in BOOLEAN :
          engine_restart(rows, read_ok)

SpecStore == InitStore /\ [][NextStore]_vars

\* ------------------------------------------------------ knowledge catalog
\* LocalKnowledgeBase.  A table is the sequence of its rows, oldest first.
KbSubjects == {<<"Math">>, <<"Art">>}
KbQueries == KbSubjects \cup {<<"Zen">>}

\* The `content` dicts of callers; the last one has no title.
KbContents ==
    {[title |-> <<"T1">>, content |-> <<"c1">>],
     [title |-> <<"T1">>, content |-> <<"c2">>],
     [title |-> <<"T2">>, content |-> <<"c1">>, type |-> <<"video">>,
      difficulty |-> <<"easy">>],
     [content |-> <<"c1">>]}

\* Where the storage fails during update_knowledge_base ("none": nowhere).
KbFailPoints ==
    {"none", "connect", "select", "insert_subject", "insert_resource", "commit"}

\* hashlib.md5(s.encode()).hexdigest()
Md5(s) == <<"md5:">> \o s

SubjectRow(subject_id, subject_name, description, last_updated) ==
    [subject_id |-> subject_id, subject_name |-> subject_name,
     description |-> description, last_updated |-> last_updated]

ResourceRow(resource_id, subject_id, title, content_type, content, difficulty_level) ==
    [resource_id |-> resource_id, subject_id |-> subject_id, title |-> title,
     content_type |-> content_type, content |-> content,
     difficulty_level |-> difficulty_level]

\* content.get(key, default)
DictGet(dict, key, default) == IF key \in DOMAIN dict THEN dict[key] ELSE default

\* SELECT subject_id FROM subjects WHERE subject_name = ?
SubjectsNamed(subjects, subject) ==
    SelectSeq(subjects, LAMBDA row : row.subject_name = subject)

\* INSERT into a table with a primary key: it fails when the key is taken.
InsertConflicts(rows, key, row) == \E i \in 1..Len(rows) : rows[i][key] = row[key]

\* INSERT without OR REPLACE.
InsertPlain(rows, key, row) == Append(rows, row)

\* INSERT OR REPLACE: the row holding the key is deleted, the new row is
\* inserted.
InsertOrReplace(rows, key, row) ==
    Append(SelectSeq(rows, LAMBDA old : old[key] # row[key]), row)

\* The statements of update_knowledge_base inside `with sqlite3.connect`:
\* the tables as the transaction sees them when it ends, and whether an
\* exception ended it.
KbTransaction(subjects, resources, subject, content, fail_at, t) ==
    LET found == SubjectsNamed(subjects, subject)
        subject_id == IF found = <<>> THEN Md5(subject) ELSE found[1].subject_id
        new_subject == SubjectRow(subject_id, subject,
                                  <<"Resources for ">> \o subject, IsoFormat(t))
        subjects1 == IF found = <<>> THEN Append(subjects, new_subject)
                     ELSE subjects
        Raised(ss, rs) == [raised |-> TRUE, subjects |-> ss, resources |-> rs]
    IN IF fail_at \in {"connect", "select"} THEN Raised(subjects, resources)
       ELSE IF /\ found = <<>>
               /\ \/ fail_at = "insert_subject"
                  \/ InsertConflicts(subjects, "subject_id", new_subject)
       THEN Raised(subjects, resources)
       ELSE IF ~({"title", "content"} \subseteq DOMAIN content)
       THEN Raised(subjects1, resources)
       ELSE IF fail_at = "insert_resource" THEN Raised(subjects1, resources)
       ELSE LET row == ResourceRow(Md5(content.title), subject_id, content.title,
                                   DictGet(content, "type", <<"text">>),
                                   content.content,
                                   DictGet(content, "difficulty", <<"intermediate">>))
                resources1 == InsertOrReplace(resources, "resource_id", row)
            IN IF fail_at = "commit" THEN Raised(subjects1, resources1)
               ELSE [raised |-> FALSE, subjects |-> subjects1,
                     resources |-> resources1]

\* The `except` without the rollback of the connection's context manager.
UpsertResultNoRollback(subjects, resources, subject, content, fail_at, t) ==
    LET work == KbTransaction(subjects, resources, subject, content, fail_at, t)
    IN [returned |-> ~work.raised, subjects |-> work.subjects,
        resources |-> work.resources]

\* update_knowledge_base: an exception leaves the `with` block, which rolls
\* the transaction back, and the `except` returns False.
UpsertResult(subjects, resources, subject, content, fail_at, t) ==
    LET work == KbTransaction(subjects, resources, subject, content, fail_at, t)
    IN IF work.raised
       THEN [returned |-> FALSE, subjects |-> subjects, resources |-> resources]
       ELSE [returned |-> TRUE, subjects |-> work.subjects,
             resources |-> work.resources]

update_knowledge_base(subject, content, fail_at) ==
    /\ Call
    /\ LET res == UpsertResult(kb_subjects, kb_resources, subject, content,
                               fail_at, now)
       IN /\ kb_subjects' = res.subjects
          /\ kb_resources' = res.resources
          /\ ret' = Ret("update_knowledge_base", <<>>, "none", <<>>, None,
                        Some(res.returned))
    /\ UNCHANGED <<now, heap, sessions, user_profiles, users_db, threads>>
    /\ UNCHANGED <<app_vars, voice_vars>>

\* What reading knowledge_base.db raises ("none": nothing): the database is
\* locked or cannot be opened (sqlite3.OperationalError), the file is not a
\* database or is malformed (sqlite3.DatabaseError, its base class).
KbReadOutcomes == {"none", "OperationalError", "DatabaseError"}

\* get_subject_resources has no `except`: an error of the storage read
\* propagates to the caller with the class sqlite3 raised.
get_subject_resources(subject, read) ==
    /\ Call
    /\ ret' = IF read = "none"
              THEN Ret("get_subject_resources", <<>>, "none", <<>>, None,
                       Some(SubjectResources(kb_subjects, kb_resources, subject)))
              ELSE Ret("get_subject_resources", <<>>, read, <<>>, None, None)
    /\ UNCHANGED <<now, heap, sessions, user_profiles, users_db, threads>>
    /\ UNCHANGED non_engine_vars

InitKb == Init

NextKb ==
    \/ \E subject \in KbSubjects, content \in KbContents, fail_at \in KbFailPoints :
          update_knowledge_base(subject, content, fail_at)
    \/ \E subject \in KbQueries, read \in KbReadOutcomes :
          get_subject_resources(subject, read)

SpecKb == InitKb /\ [][NextKb]_vars

\* ------------------------------------------------- replies of the generator
\* start_session and end_session when the generator's reply is well formed
\* text or JSON whose content the task did not ask for: no objective at all
\* (an empty reply, a reply of white space), a rating outside 1..5, a JSON
\* list.
BlankTexts == {<<>>, <<" ", "\n", " ">>, <<"\r", "\n", "\f", "\t">>}
ObjectiveReplies == ObjectiveOutcomes \cup {GenReply(t) : t \in BlankTexts}

SummaryReplies ==
    SummaryOutcomes
    \cup {GenReply(JsonDumps([FullSummary EXCEPT !.performance_rating = 9])),
          GenReply(JsonDumps(NotDict(<<>>)))}

InitReplies == Init

NextReplies ==
    \/ \E in \in StartInputs, adv \in 0..1 : start_session(in[1], in[2], adv)
    \/ \E th \in Running, out \in ObjectiveReplies : start_session_return(th, out)
    \/ \E sid \in SessionArgs : end_session(sid)
    \/ \E th \in Running, out \in SummaryReplies, write_ok \in BOOLEAN :
          end_session_return(th, out, write_ok)

SpecReplies == InitReplies /\ [][NextReplies]_vars

\* --------------------------------------------------------- the ask request
\* get_tutoring_response on a session that has a log, with a catalog that
\* holds resources.
LogLengths == {4, 6}
CatalogSizes == {2, 4}

\* The log that n / 2 answered asks leave.
LogOf(n) ==
    [i \in 1..n |->
        Message(IF i % 2 = 1 THEN "user" ELSE "assistant", <<ToString(i)>>)]

\* The tables after update_knowledge_base(subject, content) was called for
\* each <<subject, content>> of `ingestions`, in order.
RECURSIVE Ingested(_, _, _)
Ingested(subjects, resources, ingestions) ==
    IF ingestions = <<>> THEN [subjects |-> subjects, resources |-> resources]
    ELSE LET res == UpsertResult(subjects, resources, Head(ingestions)[1],
                                 Head(ingestions)[2], "none", 0)
         IN Ingested(res.subjects, res.resources, Tail(ingestions))

\* One resource of Art, then k resources of Math.
CatalogOf(k) ==
    << << <<"Art">>, [title |-> <<"A1">>, content |-> <<"a">>] >> >>
    \o [i \in 1..k |->
            << <<"Math">>, [title |-> <<"M", ToString(i)>>,
                            content |-> <<"c", ToString(i)>>] >>]

InitAsk ==
    LET user_id == RegisteredId(<<"Una">>)
        session_id == Sha256(user_id \o <<"Math">> \o IsoFormat(0))
    IN /\ now = 0
       /\ \E n \in LogLengths :
             heap = <<[TutoringSession(session_id, user_id, <<"Math">>,
                                       IsoFormat(0), FallbackObjectives(<<"Math">>))
                          EXCEPT !.messages = LogOf(n)]>>
       /\ sessions = [sid \in {session_id} |-> 1]
       /\ users_db = EarlierRunStore
       /\ \E rows \in RowOrders(users_db) :
             user_profiles = load_user_data(<<>>, rows)
       /\ threads = EmptyBag
       /\ ret = NoRet
       /\ calls = 0
       /\ AppInit
       /\ \E k \in CatalogSizes :
             /\ kb_subjects = Ingested(<<>>, <<>>, CatalogOf(k)).subjects
             /\ kb_resources = Ingested(<<>>, <<>>, CatalogOf(k)).resources

\* The replies to the follow-up request: four questions among blank lines,
\* two questions, no question, or the call fails.
FollowupReplies ==
    {GenReply(t) : t \in FollowupTexts \cup {<<" ", "g1", "\n", "g2", "\n">>, <<>>}}
    \cup {GenFail(<<"timeout">>)}

NextAsk ==
    \/ /\ calls < MaxAsks
       /\ \E sid \in DOMAIN sessions, q \in Queries,
             kb \in {GenReply(<<>>), GenFail(<<"timeout">>)} : ask_begin(sid, q, kb)
    \/ \E th \in Running : ask_reply(th, GenReply(<<"a1">>))
    \/ \E th \in Running : ask_append(th)
    \/ \E th \in Running, out \in FollowupReplies : ask_return(th, out)

SpecAsk == InitAsk /\ [][NextAsk]_vars

\* ------------------------------------------------------------ voice input
\* toggle_voice_input and the voice_input_loop threads it starts.  A loop
\* is at "dialog" (not started yet: the message box of the enabling toggle
\* is open), "check" (the `while` test), "listening" (inside the `with
\* sr.Microphone()` block), "sending" (inside the update() of the
\* send_message it called) or "exited".
ListenOutcomes == {"timeout", "error", "utterance"}

toggle_voice_input ==
    /\ ~MainBusy
    /\ Call
    /\ IF voice_enabled
       THEN /\ voice_enabled' = FALSE
            /\ stop_voice_event' = TRUE
            /\ ret' = Shown("toggle_voice_input", <<"Voice input disabled">>)
            /\ UNCHANGED voice_loops
       ELSE /\ voice_enabled' = TRUE
            /\ stop_voice_event' = FALSE
            /\ ret' = Shown("toggle_voice_input",
                   <<"Voice input enabled - press and hold the button to speak">>)
            /\ voice_loops' = Append(voice_loops, "dialog")
    /\ UNCHANGED <<now, heap, sessions, user_profiles, users_db, threads>>
    /\ UNCHANGED <<app_vars, kb_vars>>

\* The learner closes the message box of line 1562: line 1563 starts the
\* loop thread.
toggle_voice_input_return(i) ==
    /\ i \in 1..Len(voice_loops)
    /\ voice_loops[i] = "dialog"
    /\ voice_loops' = [voice_loops EXCEPT ![i] = "check"]
    /\ UNCHANGED <<now, heap, sessions, user_profiles, users_db, threads, ret,
                   calls>>
    /\ UNCHANGED <<app_vars, voice_enabled, stop_voice_event, kb_vars>>

\* `while not self.stop_voice_event.is_set()`
loop_check(i) ==
    /\ i \in 1..Len(voice_loops)
    /\ voice_loops[i] = "check"
    /\ voice_loops' = [voice_loops EXCEPT ![i] =
                          IF stop_voice_event THEN "exited" ELSE "listening"]
    /\ UNCHANGED <<now, heap, sessions, user_profiles, users_db, threads, ret,
                   calls>>
    /\ UNCHANGED <<app_vars, voice_enabled, stop_voice_event, kb_vars>>

\* listen() times out or fails (`continue`), or an utterance is recognised,
\* written into the entry and sent with send_message (with no entry built,
\* line 1574 raises and the `except` of line 1580 continues); the loop is
\* then inside that send_message, or at its test again.
loop_listen(i, outcome, message) ==
    /\ i \in 1..Len(voice_loops)
    /\ voice_loops[i] = "listening"
    /\ IF outcome = "utterance" /\ has_user_input
       THEN /\ ModernTutoringApp_send_message(message, i)
            /\ voice_loops' = [voice_loops EXCEPT ![i] =
                                  IF message \in {<<>>, Placeholder}
                                  THEN "check" ELSE "sending"]
       ELSE /\ voice_loops' = [voice_loops EXCEPT ![i] = "check"]
            /\ UNCHANGED <<now, heap, sessions, user_profiles, users_db,
                           threads, ret, calls, sending>>
    /\ UNCHANGED <<current_user, current_session, has_user_input,
                   voice_enabled, stop_voice_event, kb_vars>>

LoopListens(i) ==
    \E outcome \in ListenOutcomes, q \in Queries : loop_listen(i, outcome, q)

LoopStep(i) ==
    \/ loop_check(i)
    \/ LoopListens(i)
    \/ \E k \in 1..Len(sending) : sending[k].by = i /\ send_message_return(k)

\* The session screen, where the voice button is: the learner of the
\* earlier run has logged in and launched a session.
InitVoice ==
    LET user_id == RegisteredId(<<"Una">>)
        session_id == Sha256(user_id \o <<"Math">> \o IsoFormat(0))
    IN /\ now = 0
       /\ heap = <<TutoringSession(session_id, user_id, <<"Math">>, IsoFormat(0),
                                   FallbackObjectives(<<"Math">>))>>
       /\ sessions = [sid \in {session_id} |-> 1]
       /\ users_db = EarlierRunStore
       /\ \E rows \in RowOrders(users_db) :
             user_profiles = load_user_data(<<>>, rows)
       /\ threads = EmptyBag
       /\ ret = Ret("start_session", session_id, "none", <<>>, None, None)
       /\ calls = 0
       /\ current_user = Some(UserRef(user_id, None))
       /\ current_session = Some(1)
       /\ has_user_input = TRUE
       /\ sending = <<>>
       /\ voice_enabled = FALSE
       /\ stop_voice_event = FALSE
       /\ voice_loops = <<>>
       /\ KbInit

NextVoice ==
    \/ toggle_voice_input
    \/ \E i \in 1..Len(voice_loops) : toggle_voice_input_return(i)
    \/ \E i \in 1..Len(voice_loops) : loop_check(i)
    \/ \E i \in 1..Len(voice_loops) : LoopListens(i)
    \/ \E k \in 1..Len(sending) : send_message_return(k)
    \/ \E th \in Running, kb \in KbOutcomes : get_ai_response(th, kb)
    \/ \E th \in Running, out \in AnswerOutcomes : ask_reply(th, out)
    \/ \E th \in Running : ask_append(th)
    \/ \E th \in Running, out \in FollowupOutcomes : ask_return(th, out)

\* Every started thread keeps being scheduled.
SpecVoice ==
    /\ InitVoice
    /\ [][NextVoice]_vars
    /\ \A i \in 1..MaxCalls : WF_vars(LoopStep(i))

\* ------------------------------------------------------------ properties
\* A start_session call puts its session into the table and returns.
StartStep ==
    \E th \in Running, out \in ObjectiveOutcomes : start_session_return(th, out)

\* The session object the live table lists under sid.
Live(sid) == heap[sessions[sid]]

Records(u, sid) ==
    {i \in 1..Len(user_profiles[u].session_history) :
        user_profiles[u].session_history[i].session_id = sid}

QuizFields ==
    {"question", "options", "correct_answer", "explanation", "visual_description"}

WhiteboardFields ==
    {"title", "explanation", "visual_elements", "animation_sequence",
     "color_scheme", "learning_activities"}

WellFormedQuiz(q) ==
    /\ QuizFields \subseteq DOMAIN q
    /\ q.question # <<>>
    /\ Len(q.options) = 4
    /\ q.correct_answer \in 0..3

\* C1: end_session appends one history record per session: no profile ever
\* holds two records with the same session_id (a second end_session on the
\* same id fails and appends nothing).
C1_OneRecordPerSession ==
    \A u \in DOMAIN user_profiles, sid \in DOMAIN sessions :
        Cardinality(Records(u, sid)) <= 1

\* C2: every session in the live table is open: after end_session(sid)
\* returned, sid is no longer in the table, so no listed session has an end
\* timestamp.
C2_LiveSessionsAreOpen ==
    \A sid \in DOMAIN sessions : Live(sid).end_time = None

\* C3: a closed session is immutable: no step of ask (also one in flight
\* when the session was closed) or of end_session changes the message log
\* or the end timestamp of a session whose end timestamp is set.
C3_ClosedSessionImmutable ==
    [][~StartStep =>
          \A session \in 1..Len(heap) :
              heap[session].end_time # None =>
                  /\ heap'[session].messages = heap[session].messages
                  /\ heap'[session].end_time = heap[session].end_time]_vars

\* C4: the message log of every session has even length in every reachable
\* state (a call appends the learner's query and the tutor's answer, or
\* nothing).
C4_LogLengthEven ==
    \A session \in 1..Len(heap) : Len(heap[session].messages) % 2 = 0

\* C5: at most one ask call is in flight per session at any time.
C5_OneAskInFlight ==
    \A session \in 1..Len(heap) : InFlight(session) <= 1

\* C6: every start_session call adds exactly one new entry to the live
\* session table, under an id that was not in it, and leaves every existing
\* live session as it was.
C6_StartSessionAddsFreshEntry ==
    [][StartStep =>
          /\ ret'.sid \notin DOMAIN sessions
          /\ DOMAIN sessions' = DOMAIN sessions \cup {ret'.sid}
          /\ \A sid \in DOMAIN sessions :
                 sessions'[sid] = sessions[sid] /\ heap'[sessions[sid]] = Live(sid)]_vars

\* C7: ask, generate_quiz and end_session on a session id that is not in
\* the live table raise an error to the caller and change neither the
\* session table (so no message log), nor any profile, nor the durable
\* profile store, nor any running call.
C7_UnknownSessionRejected ==
    [][\A sid \in SessionArgs \ DOMAIN sessions :
          (\/ \E q \in Queries, kb \in KbOutcomes : ask_begin(sid, q, kb)
           \/ \E d \in Difficulties : generate_quiz(sid, d)
           \/ end_session(sid))
          => /\ ret'.raised = "ValueError"
             /\ ret'.sid = sid
             /\ UNCHANGED <<heap, sessions, user_profiles, users_db, threads>>]_vars

C7_Witness ==
    /\ ret.op = "end_session" /\ ret.raised = "ValueError"
    /\ \E sid \in DOMAIN sessions : Live(sid).end_time # None

\* C8: when the resource lookup or the answer generation fails during ask
\* on a session of the live table, ask raises nothing and returns a
\* non-empty error message with no follow-ups, and no step of that call
\* (the steps up to the generator call, the failure itself) changes a
\* message log or the session table.
C8_AskFailureAbsorbed ==
    [][/\ \A th \in Running, out \in GenErrors :
              ask_reply(th, out) =>
                  /\ ret' = Ret("ask", th.sid, "none", ret'.answer, None, None)
                  /\ ret'.answer # <<>>
                  /\ heap' = heap /\ sessions' = sessions
       /\ \A sid \in DOMAIN sessions, q \in Queries, kb \in KbOutcomes :
              ask_begin(sid, q, kb) =>
                  /\ heap' = heap /\ sessions' = sessions
                  /\ ~kb.ok =>
                        /\ ret' = Ret("ask", sid, "none", ret'.answer, None, None)
                        /\ ret'.answer # <<>>
                        /\ threads' = threads]_vars

C8_Witness ==
    /\ ret.op = "ask" /\ ret.raised = "none" /\ ret.followups = None
    /\ ret.sid \in DOMAIN sessions
    /\ Live(ret.sid).messages # <<>>
    /\ threads = EmptyBag

\* C9: when the answer was generated and the follow-up generation fails,
\* ask returns the generated answer with an empty follow-up list, and the
\* learner's query and the tutor's answer are both in the log, the query
\* before the answer.
C9_FollowupFailureAbsorbed ==
    [][\A th \in Running, out \in GenErrors :
          ask_return(th, out) =>
              /\ ret' = Ret("ask", th.sid, "none", th.ai_response, Some(<<>>), None)
              /\ \E i, j \in 1..Len(heap'[th.session].messages) :
                    /\ i < j
                    /\ heap'[th.session].messages[i] = Message("user", th.query)
                    /\ heap'[th.session].messages[j] =
                           Message("assistant", th.ai_response)]_vars

C9_Witness ==
    /\ ret.op = "ask" /\ ret.raised = "none" /\ ret.followups = Some(<<>>)
    /\ ret.answer = <<"a1">>
    /\ Len(Live(ret.sid).messages) = 2

\* C10: when the generator call fails, generate_quiz on an open session
\* returns a quiz with a question, exactly 4 options, a correct index in
\* 0..3, an explanation and a visual hint; generate_whiteboard_content
\* returns all six fields; ask returns a non-empty answer; none raises.
C10_FallbackGuarantee ==
    [][/\ \A th \in Running, out \in GenErrors :
              generate_quiz_return(th, out) =>
                  /\ ret'.raised = "none"
                  /\ ret'.result # None
                  /\ WellFormedQuiz(ret'.result[1])
       /\ \A th \in Running, out \in GenErrors :
              generate_whiteboard_content_return(th, out) =>
                  /\ ret'.raised = "none"
                  /\ ret'.result # None
                  /\ WhiteboardFields \subseteq DOMAIN ret'.result[1]
       /\ \A th \in Running, out \in GenErrors :
              ask_reply(th, out) =>
                  ret'.raised = "none" /\ ret'.answer # <<>>]_vars

C10_Witness ==
    /\ ret.op = "generate_quiz" /\ ret.raised = "none"
    /\ ret.sid \in DOMAIN sessions
    /\ ret.result = Some(FallbackQuiz(Live(ret.sid).subject))

SummaryFields == {"topics_covered", "performance_rating"}

\* C11: for every generator outcome (error, text that is not JSON, JSON that
\* lacks fields of the task schema), generate_quiz and end_session on an open
\* session raise nothing and return a schema-complete result; end_session,
\* when the summary request has returned or failed, returns a summary with
\* topics_covered and performance_rating.
C11_GenerationNeverSurfaces ==
    [][/\ \A th \in Running, out \in QuizOutcomes :
              (/\ th.pc = "generate_quiz"
               /\ heap[th.session].end_time = None
               /\ generate_quiz_return(th, out)) =>
                  /\ ret'.raised = "none"
                  /\ ret'.result # None
                  /\ QuizFields \subseteq DOMAIN ret'.result[1]
       /\ \A th \in Running, out \in SummaryOutcomes, w \in BOOLEAN :
              end_session_return(th, out, w) =>
                  /\ ret'.raised = "none"
                  /\ ret'.result # None
                  /\ SummaryFields \subseteq DOMAIN ret'.result[1]]_vars

\* The session history of the profile that owns user_id's sessions: the
\* profile the engine's table holds, else the logged-in user's own object.
OwnerHistory(user_id) ==
    IF user_id \in DOMAIN user_profiles
    THEN Some(user_profiles[user_id].session_history)
    ELSE IF /\ current_user # None
            /\ current_user[1].user_id = user_id
            /\ current_user[1].own # None
    THEN Some(current_user[1].own[1].session_history)
    ELSE None

IsPrefix(s, t) == Len(s) <= Len(t) /\ SubSeq(t, 1, Len(s)) = s

\* C12: end_session on an open session sets the close timestamp, appends to
\* the owning profile (registered or guest) one history record carrying the
\* session's id, subject, start and end timestamps and objectives, and
\* persists: when it returns, the stored row of the owner decodes to the
\* in-memory profile, the new record included.
C12_EndSessionRecordsAndPersists ==
    [][/\ (/\ current_session # None
           /\ heap[current_session[1]].end_time = None
           /\ end_current_session)
          => heap'[current_session[1]].end_time # None
       /\ \A th \in Running, out \in SummaryOutcomes, w \in BOOLEAN :
              end_current_session_return(th, out, w) =>
                  \A user_id \in {heap[th.session].user_id} :
                      LET session == heap'[th.session]
                          before == OwnerHistory(user_id)
                          after == OwnerHistory(user_id)'
                      IN /\ session.end_time # None
                         /\ before # None /\ after # None
                         /\ Len(after[1]) = Len(before[1]) + 1
                         /\ IsPrefix(before[1], after[1])
                         /\ LET record == after[1][Len(after[1])]
                            IN /\ record.session_id = session.session_id
                               /\ record.subject = session.subject
                               /\ record.start_time = session.start_time
                               /\ record.end_time = session.end_time[1]
                               /\ record.learning_objectives =
                                      session.learning_objectives
                         /\ user_id \in DOMAIN users_db'
                         /\ RowProfile(user_id, users_db'[user_id]).session_history
                                = after[1]]_vars

\* C13: a profile's session history is append-only: across every step
\* (register, login, launch, ask, end session, change avatar, save
\* settings) every user_id of the profile table stays in it and its history
\* before the step is a prefix of its history after the step.
C13_HistoryAppendOnly ==
    [][\A user_id \in DOMAIN user_profiles :
          /\ user_id \in DOMAIN user_profiles'
          /\ IsPrefix(user_profiles[user_id].session_history,
                      user_profiles'[user_id].session_history)]_vars

\* C14: a guest profile is never persisted: in every reachable state neither
\* the durable profile store nor the engine's profile table holds a profile
\* whose user_id is a guest id.
C14_GuestNeverPersisted ==
    \A user_id \in DOMAIN users_db \cup DOMAIN user_profiles : ~IsGuestId(user_id)

\* C15: when writing the profile store fails, the save operation reports the
\* failure to its caller (its outcome differs from the outcome of a save
\* that succeeded), so registration and save-settings do not announce
\* success.
C15_SaveFailureReported ==
    [][/\ (\E name \in Names \ {<<>>}, ls \in LearningStyles,
              pl \in ProficiencyLevels : do_register(name, ls, pl, FALSE))
          => /\ SaveOutcome(FALSE) # SaveOutcome(TRUE)
             /\ ret'.answer[1] # "Account created! Your user ID is: "
       /\ (current_user # None /\ \E v \in BOOLEAN : save_settings(v, FALSE))
          => /\ SaveOutcome(FALSE) # SaveOutcome(TRUE)
             /\ ret'.answer # <<"Settings saved successfully">>
       /\ (/\ \E th \in Running, out \in SummaryOutcomes :
                 end_current_session_return(th, out, FALSE)
           /\ ret'.raised = "none")
          => SaveOutcome(FALSE) # SaveOutcome(TRUE)]_vars

\* The tables an empty engine can load from the store db, one per order of
\* its rows.
ReloadedTables(db) == {load_user_data(<<>>, rows) : rows \in RowOrders(db)}

\* C16 (as stated): after save_user_data, load_user_data into an empty
\* engine yields the same set of user_ids as the saved table, each profile
\* field-for-field equal, and saving again leaves the store as it is.
C16_RoundTripSameIds ==
    [][engine_save(TRUE) =>
          /\ \A loaded \in ReloadedTables(users_db') :
                /\ DOMAIN loaded = DOMAIN user_profiles
                /\ \A u \in DOMAIN user_profiles : loaded[u] = user_profiles[u]
          /\ save_user_data(user_profiles, users_db', TRUE) = users_db']_vars

\* C16 (amended): after save_user_data, load_user_data into an empty engine
\* yields every profile of the saved table field-for-field equal (name,
\* learning style, proficiency level, preferred_subjects, session_history,
\* avatar path), and besides them exactly the rows the store already held
\* for other user_ids, unchanged; saving again leaves the store as it is.
C16_RoundTripOfSavedProfiles ==
    [][engine_save(TRUE) =>
          /\ \A loaded \in ReloadedTables(users_db') :
                /\ DOMAIN loaded = DOMAIN user_profiles \cup DOMAIN users_db
                /\ \A u \in DOMAIN user_profiles :
                      /\ loaded[u].user_id = u
                      /\ loaded[u].name = user_profiles[u].name
                      /\ loaded[u].learning_style = user_profiles[u].learning_style
                      /\ loaded[u].proficiency_level =
                             user_profiles[u].proficiency_level
                      /\ loaded[u].preferred_subjects =
                             user_profiles[u].preferred_subjects
                      /\ loaded[u].session_history =
                             user_profiles[u].session_history
                      /\ loaded[u].avatar_path = user_profiles[u].avatar_path
          /\ \A u \in DOMAIN users_db \ DOMAIN user_profiles :
                users_db'[u] = users_db[u]
          /\ save_user_data(user_profiles, users_db', TRUE) = users_db']_vars

\* A save has written a profile with subjects, history and avatar next to a
\* row of a user_id the table does not hold.
C16_Witness ==
    /\ ret.op = "save_user_data"
    /\ \E u \in DOMAIN user_profiles :
          /\ user_profiles[u].preferred_subjects # <<>>
          /\ user_profiles[u].session_history # <<>>
          /\ user_profiles[u].avatar_path # <<>>
          /\ u \in DOMAIN users_db /\ users_db[u] = UserRow(user_profiles[u])
    /\ DOMAIN users_db \ DOMAIN user_profiles # {}

\* The rows of a table whose title is `title`.
RowsTitled(rows, title) == {i \in 1..Len(rows) : rows[i].title = title}

\* Is the resource row filed under the subject named `subject`.
FiledUnder(subjects, row, subject) ==
    \E i \in 1..Len(subjects) :
        /\ subjects[i].subject_id = row.subject_id
        /\ subjects[i].subject_name = subject

\* C17: ingesting a (subject, title) that is already in the catalog with
\* different content leaves exactly one resource row for that title, holding
\* the content of the second ingestion under the same resource id, and
\* get_subject_resources(subject) returns that title exactly once.
C17_UpsertKeepsOneRow ==
    [][\A subject \in KbSubjects, content \in KbContents :
          (/\ {"title", "content"} \subseteq DOMAIN content
           /\ \E i \in RowsTitled(kb_resources, content.title) :
                 /\ kb_resources[i].content # content.content
                 /\ FiledUnder(kb_subjects, kb_resources[i], subject)
           /\ update_knowledge_base(subject, content, "none"))
          => /\ Cardinality(RowsTitled(kb_resources', content.title)) = 1
             /\ \A i \in RowsTitled(kb_resources', content.title) :
                   /\ kb_resources'[i].content = content.content
                   /\ \A j \in RowsTitled(kb_resources, content.title) :
                         kb_resources'[i].resource_id = kb_resources[j].resource_id
             /\ Cardinality(RowsTitled(
                    SubjectResources(kb_subjects', kb_resources', subject),
                    content.title)) = 1]_vars

\* The state a second ingestion of (Math, T1) leaves: after two calls or
\* more, the last one a successful update, T1 is filed under Math with the
\* content c2.
C17_Witness ==
    /\ calls >= 2
    /\ ret.op = "update_knowledge_base" /\ ret.result = Some(TRUE)
    /\ \E i \in RowsTitled(kb_resources, <<"T1">>) :
          /\ kb_resources[i].content = <<"c2">>
          /\ FiledUnder(kb_subjects, kb_resources[i], <<"Math">>)

\* Does a statement of update_knowledge_base(subject, ...) fail: the INSERT
\* into subjects is executed only for an unseen subject name.
StorageFails(subject, fail_at) ==
    /\ fail_at # "none"
    /\ fail_at = "insert_subject" => SubjectsNamed(kb_subjects, subject) = <<>>

\* C18: update_knowledge_base(subject, resource) returns true after
\* upserting the resource and creating the subject entry when the subject
\* name was unseen (an existing subject name gets no second entry); on a
\* storage failure (or a resource without title or content) it returns
\* false, raises nothing and leaves both tables as they were.
C18_UpdateTrueOrUntouched ==
    [][\A subject \in KbSubjects, content \in KbContents, fail_at \in KbFailPoints :
          update_knowledge_base(subject, content, fail_at) =>
              IF /\ ~StorageFails(subject, fail_at)
                 /\ {"title", "content"} \subseteq DOMAIN content
              THEN /\ ret'.raised = "none" /\ ret'.result = Some(TRUE)
                   /\ \E i \in 1..Len(kb_resources') :
                         /\ kb_resources'[i].resource_id = Md5(content.title)
                         /\ kb_resources'[i].title = content.title
                         /\ kb_resources'[i].content = content.content
                         /\ FiledUnder(kb_subjects', kb_resources'[i], subject)
                   /\ Len(SubjectsNamed(kb_subjects', subject)) = 1
                   /\ IF SubjectsNamed(kb_subjects, subject) # <<>>
                      THEN kb_subjects' = kb_subjects
                      ELSE /\ Len(kb_subjects') = Len(kb_subjects) + 1
                           /\ IsPrefix(kb_subjects, kb_subjects')
              ELSE /\ ret'.raised = "none" /\ ret'.result = Some(FALSE)
                   /\ UNCHANGED <<kb_subjects, kb_resources>>]_vars

\* An update failed on a catalog that holds a subject and a resource.
C18_Witness ==
    /\ ret.op = "update_knowledge_base" /\ ret.result = Some(FALSE)
    /\ kb_subjects # <<>> /\ kb_resources # <<>>

\* C19: get_subject_resources(subject) never fails: it raises no error to
\* its caller, also when the storage read fails, and for a subject without
\* resources or an unknown subject name it returns the empty sequence.
C19_GetResourcesNeverFails ==
    [][\A subject \in KbQueries, read \in KbReadOutcomes :
          get_subject_resources(subject, read) =>
              /\ ret'.raised = "none"
              /\ ret'.result # None
              /\ (\A i \in 1..Len(kb_resources) :
                     ~FiledUnder(kb_subjects, kb_resources[i], subject))
                 => ret'.result = Some(<<>>)]_vars

\* C20: once voice input is disabled (the cancellation signal is set), every
\* capture loop running at that moment eventually exits, also when voice
\* input is enabled again shortly afterwards; and enabling starts a new
\* loop instance (when its message box is closed).
C20_DisabledLoopExits ==
    /\ \A i \in 1..MaxCalls :
          (i <= Len(voice_loops) /\ voice_loops[i] # "exited" /\ stop_voice_event)
              ~> (i <= Len(voice_loops) /\ voice_loops[i] = "exited")
    /\ [][/\ (toggle_voice_input /\ ~voice_enabled) =>
                 /\ Len(voice_loops') = Len(voice_loops) + 1
                 /\ voice_loops'[Len(voice_loops')] = "dialog"
          /\ \A i \in 1..Len(voice_loops) :
                 toggle_voice_input_return(i) => voice_loops'[i] = "check"]_vars

\* The rows of the resources table filed under the subject named `subject`.
StoredFor(subject) ==
    {i \in 1..Len(kb_resources) : FiledUnder(kb_subjects, kb_resources[i], subject)}

\* C21: for a session whose log has n messages, the request ask sends to
\* the generator carries exactly the last min(5, n) logged messages in log
\* order followed by the new query, and excerpts of at most 3 catalog
\* resources, each of the session's subject, whatever number is stored.
C21_RequestWindow ==
    [][\A sid \in DOMAIN sessions, q \in Queries, kb \in KbOutcomes :
          (kb.ok /\ ask_begin(sid, q, kb)) =>
              \A th \in BagToSet(threads') :
                  CopiesIn(th, threads') > CopiesIn(th, threads) =>
                      LET log == Live(sid).messages
                          n == Len(log)
                          k == IF n < 5 THEN n ELSE 5
                          stored == Cardinality(StoredFor(Live(sid).subject))
                          sent == th.request.messages
                          excerpts == th.request.resources_context
                      IN /\ Len(sent) = k + 1
                         /\ \A j \in 1..k : sent[j] = log[n - k + j]
                         /\ sent[k + 1] = Message("user", q)
                         /\ Len(excerpts) = IF stored < 3 THEN stored ELSE 3
                         /\ \A e \in 1..Len(excerpts) :
                                \E i \in StoredFor(Live(sid).subject) :
                                    excerpts[e] = Excerpt(kb_resources[i])]_vars

\* An ask on a log of 6 messages or more with 4 resources stored for the
\* subject has sent its request: 5 logged messages and the query, 3
\* excerpts.
C21_Witness ==
    \E th \in Running :
        /\ Len(heap[th.session].messages) >= 6
        /\ Cardinality(StoredFor(heap[th.session].subject)) = 4
        /\ Len(th.request.messages) = 6
        /\ Len(th.request.resources_context) = 3

\* C22: ask never returns more than 3 follow-up questions, whatever number
\* of non-empty lines the generator's follow-up reply contains; the returned
\* follow-ups are the first non-empty trimmed lines of that reply in order
\* (of four questions among blank lines the first three, of two both).
C22_AtMostThreeFollowups ==
    [][\A th \in Running, out \in FollowupReplies :
          ask_return(th, out) =>
              /\ ret'.op = "ask" /\ ret'.raised = "none"
              /\ ret'.followups # None
              /\ Len(ret'.followups[1]) <= 3
              /\ out.ok =>
                    LET lines == StrippedNonEmpty(SplitLines(out.content))
                        got == ret'.followups[1]
                    IN /\ Len(got) = (IF Len(lines) < 3 THEN Len(lines) ELSE 3)
                       /\ \A i \in 1..Len(got) : got[i] = lines[i]
              /\ out \in {GenReply(t) : t \in FollowupTexts} =>
                    ret'.followups[1] = << <<"f1">>, <<"f2">>, <<"f3">> >>
              /\ out = GenReply(<<" ", "g1", "\n", "g2", "\n">>) =>
                    ret'.followups[1] = << <<"g1">>, <<"g2">> >>]_vars

\* An ask has returned the first three of the four questions of the reply.
C22_Witness ==
    /\ ret.op = "ask" /\ ret.raised = "none"
    /\ ret.followups = Some(<< <<"f1">>, <<"f2">>, <<"f3">> >>)
    /\ Live(ret.sid).messages[Len(Live(ret.sid).messages)].content = ret.answer

\* The role of the i-th entry of a log that alternates from its first entry.
RoleAt(i) == IF i % 2 = 1 THEN "user" ELSE "assistant"

\* C23: in every session's message log the entries alternate learner,
\* tutor, learner, tutor from the first entry on, so that each tutor answer
\* directly follows the learner query it answers, for every interleaving of
\* ask calls issued from worker threads on that session.
C23_LogAlternates ==
    \A session \in 1..Len(heap) :
        \A i \in 1..Len(heap[session].messages) :
            heap[session].messages[i].role = RoleAt(i)

\* C24: the learning objectives of a session returned by start_session are
\* the trimmed non-empty lines of the generator's reply in order, and on any
\* generation failure, an empty or white-space-only reply included, they
\* are the fallback objectives; so no session starts with an empty list.
C24_ObjectivesNeverEmpty ==
    [][\A th \in Running, out \in ObjectiveReplies :
          start_session_return(th, out) =>
              LET objectives == heap'[Len(heap')].learning_objectives
                  lines == StrippedNonEmpty(SplitLines(out.content))
              IN /\ objectives # <<>>
                 /\ objectives = IF out.ok /\ lines # <<>> THEN lines
                                 ELSE FallbackObjectives(th.request.subject)]_vars

\* The summaries whose rating is an integer of 1..5.
RatingInRange(summary) ==
    "performance_rating" \in DOMAIN summary => summary.performance_rating \in 1..5

\* C27: the performance_rating of every summary returned by end_session,
\* and of every history record stored in a profile, is an integer in 1..5,
\* whatever value the generator's summary reply carries.
C27_RatingInRange ==
    /\ (ret.op = "end_session" /\ ret.result # None) => RatingInRange(ret.result[1])
    /\ \A u \in DOMAIN user_profiles :
          \A i \in 1..Len(user_profiles[u].session_history) :
              RatingInRange(user_profiles[u].session_history[i])
    /\ \A u \in DOMAIN users_db :
          \A i \in 1..Len(JsonLoads(users_db[u].session_history)) :
              RatingInRange(JsonLoads(users_db[u].session_history)[i])

\* What start_session fixes of a session.
IdentityOf(session) ==
    <<session.session_id, session.user_id, session.subject, session.start_time,
      session.learning_objectives>>

\* C25: a session's learning objectives, subject, user_id, session_id and
\* start timestamp never change after start_session returned it: no step
\* changes them in any session object, and every step of ask,
\* generate_quiz, generate_whiteboard_content and end_session leaves each
\* id of the live table on a session with the same five values.
C25_SessionIdentityImmutable ==
    [][/\ \A session \in 1..Len(heap) :
              /\ session <= Len(heap')
              /\ IdentityOf(heap'[session]) = IdentityOf(heap[session])
       /\ ~StartStep =>
              \A sid \in DOMAIN sessions :
                  /\ sid \in DOMAIN sessions'
                  /\ IdentityOf(heap'[sessions'[sid]]) = IdentityOf(Live(sid))]_vars

\* A session that was asked and then closed.
C25_Witness ==
    /\ ret.op = "end_session" /\ ret.raised = "none"
    /\ Live(ret.sid).messages # <<>>
    /\ Live(ret.sid).end_time # None
    /\ IdentityOf(Live(ret.sid))[5] # <<>>

\* C26: generate_whiteboard_content(concept) is stateless: whether the
\* generation succeeds or fails it raises nothing and, at its call and at
\* its return, leaves the live session table, every session (message log
\* and whiteboard log), every profile, the durable stores and every other
\* call in progress unchanged; and it can be called in every state, with
\* or without an open session, and return in every state in which it
\* waits.
C26_WhiteboardStateless ==
    /\ [][/\ \A c \in Concepts :
                generate_whiteboard_content(c) =>
                    /\ \E th \in Running' :
                           /\ th.pc = "generate_whiteboard_content"
                           /\ threads' = threads (+) SetToBag({th})
                    /\ UNCHANGED <<heap, sessions, user_profiles, users_db,
                                   kb_vars>>
          /\ \A th \in Running, out \in WhiteboardOutcomes :
                generate_whiteboard_content_return(th, out) =>
                    /\ ret'.raised = "none" /\ ret'.result # None
                    /\ threads' = threads (-) SetToBag({th})
                    /\ UNCHANGED <<heap, sessions, user_profiles, users_db,
                                   kb_vars>>]_vars
    /\ [](/\ calls < MaxCalls =>
                \A c \in Concepts : ENABLED generate_whiteboard_content(c)
          /\ \A th \in Running, out \in WhiteboardOutcomes :
                th.pc = "generate_whiteboard_content" =>
                    ENABLED generate_whiteboard_content_return(th, out))

\* Whiteboard content was generated while the only session is closed.
C26_Witness ==
    /\ ret.op = "generate_whiteboard_content" /\ ret.result # None
    /\ heap # <<>>
    /\ \A session \in 1..Len(heap) : heap[session].end_time # None

\* C28: the session_id of every session is the hash of that session's own
\* user_id, subject and recorded start timestamp: for every live session,
\* recomputing the hash from its stored user_id, subject and start_time
\* gives its session_id, also when the clock advances during start_session.
C28_IdIsHashOfStoredFields ==
    \A sid \in DOMAIN sessions :
        /\ Live(sid).session_id = sid
        /\ sid = Sha256(Live(sid).user_id \o Live(sid).subject \o Live(sid).start_time)

\* The capture loops that have been started and have not exited.
RunningLoops ==
    {i \in 1..Len(voice_loops) :
        voice_loops[i] \in {"check", "listening", "sending"}}

\* C29: at most one voice capture loop instance is running at any time, for
\* every sequence of voice-input toggles (disable followed by enable before
\* the old loop has observed the stop signal included); so one utterance is
\* never sent as a message by two loops.
C29_OneCaptureLoop ==
    Cardinality(RunningLoops) <= 1

\* C30: ingesting a resource under subject B never changes what
\* get_subject_resources(A) returns for any other subject A, also when the
\* ingested title equals the title of a resource already stored under A.
C30_OtherSubjectsUntouched ==
    [][\A b \in KbSubjects, content \in KbContents, fail_at \in KbFailPoints :
          update_knowledge_base(b, content, fail_at) =>
              \A a \in KbQueries \ {b} :
                  SubjectResources(kb_subjects', kb_resources', a) =
                      SubjectResources(kb_subjects, kb_resources, a)]_vars
====
